---- MODULE Spec2Model ----
(***************************************************************************)
(* Model of src/train.py: the configuration merge of main, the build steps *)
(* of TrainHandler.__init__ (checkpoint naming, batch sizes, model         *)
(* selection), TrainHandler.train / test, and the tail of main.            *)
(*                                                                         *)
(* Python strings are sequences of one-character strings, so that          *)
(* str.lower, os.path.join, strftime and the f-strings are computed        *)
(* character by character.  Python values are tagged records.              *)
(***************************************************************************)
EXTENDS Integers, Sequences, FiniteSets, TLC

VARIABLES
    pc,             \* the statement of main / TrainHandler.__init__ to run next
    world,          \* what the files, wandb, the clock and the data module return
    cli,            \* the namespace as argparse produced it (history of args)
    args,           \* the argparse namespace, mutated in place by main
    config_args,    \* main's local config_args
    wandb_config,   \* wandb.config, the session's recorded configuration
    fs,             \* directories created by os.makedirs
    handler,        \* the fields of the TrainHandler under construction
    batch,          \* the pair __get_batch_size returned
    fit_calls,      \* the calls of trainer.fit, with their arguments
    test_calls,     \* the calls of trainer.test, with their arguments
    best_model_path,\* trainer.checkpoint_callback.best_model_path
    artifacts,      \* artifacts logged to wandb
    events,         \* the external calls made so far, in order
    error           \* the exception that ended the run, or None

vars == <<pc, world, cli, args, config_args, wandb_config, fs, handler, batch,
          fit_calls, test_calls, best_model_path, artifacts, events, error>>

-----------------------------------------------------------------------------
(* Python values *)

None == [t |-> "None"]
PyInt(n) == [t |-> "int", v |-> n]
PyStr(s) == [t |-> "str", v |-> s]
PyBool(b) == [t |-> "bool", v |-> b]
PyDict(f) == [t |-> "dict", v |-> f]
Loader(n) == [t |-> "loader", v |-> n]

\* bool(x), as `if x:` evaluates it
Truthy(x) ==
    CASE x.t = "None" -> FALSE
      [] x.t = "int" -> x.v # 0
      [] x.t = "str" -> Len(x.v) > 0
      [] x.t = "bool" -> x.v
      [] x.t = "dict" -> DOMAIN x.v # {}
      [] OTHER -> TRUE

EmptyDict == [k \in {} |-> None]

\* for key, value in d.items(): setattr(ns, key, value)
SetAttrs(ns, d) ==
    [k \in DOMAIN ns \cup DOMAIN d |-> IF k \in DOMAIN d THEN d[k] ELSE ns[k]]

-----------------------------------------------------------------------------
(* Strings *)

UpperAlpha == <<"A", "B", "C", "D", "E", "F", "G", "H", "I", "J", "K", "L", "M",
                "N", "O", "P", "Q", "R", "S", "T", "U", "V", "W", "X", "Y", "Z">>
LowerAlpha == <<"a", "b", "c", "d", "e", "f", "g", "h", "i", "j", "k", "l", "m",
                "n", "o", "p", "q", "r", "s", "t", "u", "v", "w", "x", "y", "z">>
Digits == <<"0", "1", "2", "3", "4", "5", "6", "7", "8", "9">>

LowerChar(c) ==
    IF \E i \in DOMAIN UpperAlpha : UpperAlpha[i] = c
    THEN LowerAlpha[CHOOSE i \in DOMAIN UpperAlpha : UpperAlpha[i] = c]
    ELSE c

\* str.lower()
Lower(s) == [i \in DOMAIN s |-> LowerChar(s[i])]

StartsWith(s, p) == Len(p) <= Len(s) /\ SubSeq(s, 1, Len(p)) = p

\* p in s
Contains(s, p) ==
    \E i \in 0..(Len(s) - Len(p)) : SubSeq(s, i + 1, i + Len(p)) = p

\* the decimal digits of n >= 0
RECURSIVE Decimal(_)
Decimal(n) == IF n < 10 THEN <<Digits[n + 1]>>
              ELSE Decimal(n \div 10) \o <<Digits[(n % 10) + 1]>>

\* "%0<w>d" % n
RECURSIVE ZeroPad(_, _)
ZeroPad(s, w) == IF Len(s) >= w THEN s ELSE ZeroPad(<<"0">> \o s, w)

\* datetime.strftime("%Y%m%d_%H%M%S")
StrfTime(d) ==
    ZeroPad(Decimal(d.Y), 4) \o ZeroPad(Decimal(d.m), 2) \o ZeroPad(Decimal(d.d), 2)
    \o <<"_">>
    \o ZeroPad(Decimal(d.H), 2) \o ZeroPad(Decimal(d.M), 2) \o ZeroPad(Decimal(d.S), 2)

\* os.path.join(a, b) on a POSIX system
PathJoin(a, b) ==
    IF Len(b) > 0 /\ b[1] = "/" THEN b
    ELSE IF Len(a) = 0 \/ a[Len(a)] = "/" THEN a \o b
    ELSE a \o <<"/">> \o b

s_seer == <<"s", "e", "e", "r">>
s_endovit == <<"e", "n", "d", "o", "v", "i", "t">>
s_timm == <<"t", "i", "m", "m">>
s_SEER == <<"S", "E", "E", "R">>
s_EndoViT == <<"E", "n", "d", "o", "V", "i", "T">>
s_TIMM == <<"T", "I", "M", "M">>
s_ENDOVIT == <<"E", "N", "D", "O", "V", "I", "T">>
s_unsupported == <<"u", "n", "s", "u", "p", "p", "o", "r", "t", "e", "d">>
s_regnety == <<"r", "e", "g", "n", "e", "t", "y">>
s_val_mAP_weighted == <<"v", "a", "l", "_", "m", "A", "P", "_", "w", "e", "i", "g", "h", "t", "e", "d">>
s_val_AUC_macro == <<"v", "a", "l", "_", "A", "U", "C", "_", "m", "a", "c", "r", "o">>
s_val_f1_weighted == <<"v", "a", "l", "_", "f", "1", "_", "w", "e", "i", "g", "h", "t", "e", "d">>
s_checkpoints == <<"c", "h", "e", "c", "k", "p", "o", "i", "n", "t", "s">>
s_cfg_yaml == <<"c", "f", "g", ".", "y", "a", "m", "l">>
s_sweep == <<"s", "w", "e", "e", "p", "-">>
s_run == <<"r", "u", "n", "-">>
s_best == <<"b", "e", "s", "t">>
s_epoch == <<"_", "e", "p", "o", "c", "h", "{", "e", "p", "o", "c", "h", ":", "0", "2", "d", "}", "_">>
s_2f == <<":", ".", "2", "f", "}">>
s_model_type == <<"M", "o", "d", "e", "l", " ", "t", "y", "p", "e", " ">>
s_not_supported == <<" ", "i", "s", " ", "n", "o", "t", " ", "s", "u", "p", "p", "o", "r", "t", "e", "d", ".">>
s_ckpt == <<".", "c", "k", "p", "t">>

DefaultBs == 64

-----------------------------------------------------------------------------
(* Inputs *)

\* largest batch size a configuration file of the model gives
MaxBs == 2

\* the options the configuration files of the model set
FileKeys == {"train_bs", "val_bs"}

Dicts(keys, values) == UNION {[ks -> values] : ks \in SUBSET keys}

CliBs == {None, PyInt(DefaultBs)}
FileBs == {None} \cup {PyInt(n) : n \in 0..MaxBs}
LocalBs == {None, PyInt(2 * DefaultBs)}

\* yaml.safe_load of a file: a mapping, or None for an empty document
ConfigDocs == {None} \cup {PyDict(f) : f \in Dicts(FileKeys, FileBs)}
LocalDocs == {None} \cup {PyDict(f) : f \in Dicts(FileKeys, LocalBs)}

ModelTypes == {s_seer, s_endovit, s_timm, s_SEER, s_EndoViT, s_TIMM, s_unsupported}
ModelArchs == {s_endovit, s_ENDOVIT, s_EndoViT, s_regnety, <<>>}
Metrics == {s_val_mAP_weighted, s_val_AUC_macro, s_val_f1_weighted}
CheckpointDirs == {s_checkpoints, <<"c", "k", "/">>, <<"/", "d", "/", "c", "k">>, <<>>}
SweepIds == {None, PyStr(<<>>), PyStr(<<"s", "1">>)}
RunNames == {<<"f", "o", "o">>, <<"b", "e", "s", "t", "-", "7">>}
Nows == {[Y |-> 2024, m |-> 1, d |-> 1, H |-> 0, M |-> 0, S |-> 0],
         [Y |-> 2026, m |-> 11, d |-> 23, H |-> 7, M |-> 5, S |-> 59]}

\* the namespace of a run with every option at its argparse default
DefaultArgs ==
    [config |-> None, train_bs |-> PyInt(DefaultBs), val_bs |-> PyInt(DefaultBs),
     model_type |-> PyStr(s_seer), model_arch |-> PyStr(s_regnety),
     metric |-> PyStr(s_val_AUC_macro), checkpoint_dir |-> PyStr(s_checkpoints),
     train_loader_only |-> PyBool(FALSE)]

\* a machine without the local override file, a standalone wandb run and a
\* data module with all three loaders
DefaultWorld ==
    [config_doc |-> PyDict(EmptyDict), local_exists |-> FALSE, local_doc |-> PyDict(EmptyDict),
     sweep_id |-> None, run_name |-> <<"f", "o", "o">>, now |-> CHOOSE d \in Nows : d.Y = 2024,
     cuda |-> FALSE, mps |-> FALSE,
     train_loader |-> Loader("train"), val_loader |-> Loader("val"),
     test_loader |-> Loader("test"), checkpoint_saved |-> TRUE]

\* runs that differ in the three configuration layers
MergeInputs ==
    {<<[DefaultArgs EXCEPT !.config = c, !.train_bs = tb, !.val_bs = vb],
       [DefaultWorld EXCEPT !.config_doc = cd, !.local_exists = le, !.local_doc = ld,
                            !.cuda = cu]>> :
        c \in {None, PyStr(s_cfg_yaml)}, tb \in CliBs, vb \in CliBs,
        cd \in ConfigDocs, le \in BOOLEAN, ld \in LocalDocs, cu \in BOOLEAN}

\* runs that differ in the model options
SelectInputs ==
    {<<[DefaultArgs EXCEPT !.model_type = PyStr(mt), !.model_arch = PyStr(ma)], DefaultWorld>> :
        mt \in ModelTypes, ma \in ModelArchs}

\* runs that differ in the run identity and the checkpoint options
NamingInputs ==
    {<<[DefaultArgs EXCEPT !.checkpoint_dir = PyStr(cd), !.metric = PyStr(me)],
       [DefaultWorld EXCEPT !.sweep_id = sw, !.run_name = rn, !.now = nw]>> :
        cd \in CheckpointDirs, me \in Metrics, sw \in SweepIds, rn \in RunNames, nw \in Nows}

\* runs that differ in the loaders of the data module
TrainInputs ==
    {<<[DefaultArgs EXCEPT !.train_loader_only = PyBool(tlo)],
       [DefaultWorld EXCEPT !.train_loader = tr, !.val_loader = va, !.test_loader = te,
                            !.checkpoint_saved = cs, !.mps = mp]>> :
        tlo \in BOOLEAN, tr \in {None, Loader("train")}, va \in {None, Loader("val")},
        te \in {None, Loader("test")}, cs \in BOOLEAN, mp \in BOOLEAN}

Inputs == MergeInputs \cup SelectInputs \cup NamingInputs \cup TrainInputs

-----------------------------------------------------------------------------
(* Pure functions of TrainHandler *)

\* DirectoryName testing the sweep id against None instead of its truth value
DirectoryNameNotNone(sweep_id, timestamp, run_name) ==
    IF sweep_id # None
    THEN s_sweep \o sweep_id.v
    ELSE s_run \o timestamp \o <<"-">> \o run_name

\* the directory name of __preparations: sweep-<sweep_id> or run-<timestamp>-<run_name>
DirectoryName(sweep_id, timestamp, run_name) ==
    IF Truthy(sweep_id)
    THEN s_sweep \o sweep_id.v
    ELSE s_run \o timestamp \o <<"-">> \o run_name

\* the filename template of __preparations
Filename(sweep_id, run_name, metric) ==
    IF Truthy(sweep_id)
    THEN run_name \o s_epoch \o metric \o <<"{">> \o metric \o s_2f
    ELSE s_best \o s_epoch \o metric \o <<"{">> \o metric \o s_2f

\* the ModelCheckpoint that __preparations constructs
CheckpointCallback(config, sweep_id, now, run_name) ==
    [dirpath |-> PathJoin(config.checkpoint_dir.v,
                          DirectoryName(sweep_id, StrfTime(now), run_name)),
     filename |-> Filename(sweep_id, run_name, config.metric.v),
     save_top_k |-> 1,
     save_weights_only |-> FALSE,
     mode |-> "max",
     monitor |-> config.metric.v,
     auto_insert_metric_name |-> FALSE]

\* GetBatchSize with val_bs defaulting to the resolved train_bs
GetBatchSizeValFollowsTrain(a, cuda) ==
    LET train_bs == IF Truthy(a.train_bs) THEN a.train_bs ELSE PyInt(DefaultBs)
        val_bs == train_bs
    IN <<train_bs, IF Truthy(a.val_bs) THEN a.val_bs ELSE val_bs>>

\* __get_batch_size: the pair (train_bs, val_bs); cuda only selects what is logged
GetBatchSize(a, cuda) ==
    LET train_bs == PyInt(DefaultBs)
        val_bs == train_bs
    IN <<IF Truthy(a.train_bs) THEN a.train_bs ELSE train_bs,
         IF Truthy(a.val_bs) THEN a.val_bs ELSE val_bs>>

\* what __get_batch_size logs about the accelerator
VramLog(cuda) == IF cuda THEN "logging.info:gpu_vram" ELSE "logging.info:no_cuda"

\* GetModelCls testing model_type == "timm" before the endovit rule
GetModelClsTimmFirst(model_arch, model_type) ==
    IF model_type = s_seer
    THEN [ok |-> TRUE, cls |-> "RegNetY"]
    ELSE IF model_type = s_timm
    THEN [ok |-> TRUE, cls |-> "TimmModel"]
    ELSE IF model_type = s_endovit \/ Lower(model_arch) = s_endovit
    THEN [ok |-> TRUE, cls |-> "EndoViT"]
    ELSE [ok |-> FALSE,
          exc |-> [type |-> "ValueError",
                   msg |-> s_model_type \o model_type \o s_not_supported]]

\* GetModelCls falling back to TimmModel instead of raising
GetModelClsDefaultTimm(model_arch, model_type) ==
    IF model_type = s_seer
    THEN [ok |-> TRUE, cls |-> "RegNetY"]
    ELSE IF model_type = s_endovit \/ Lower(model_arch) = s_endovit
    THEN [ok |-> TRUE, cls |-> "EndoViT"]
    ELSE [ok |-> TRUE, cls |-> "TimmModel"]

\* __get_model_cls: the constructor, or the ValueError it raises
GetModelCls(model_arch, model_type) ==
    IF model_type = s_seer
    THEN [ok |-> TRUE, cls |-> "RegNetY"]
    ELSE IF model_type = s_endovit \/ Lower(model_arch) = s_endovit
    THEN [ok |-> TRUE, cls |-> "EndoViT"]
    ELSE IF model_type = s_timm
    THEN [ok |-> TRUE, cls |-> "TimmModel"]
    ELSE [ok |-> FALSE,
          exc |-> [type |-> "ValueError",
                   msg |-> s_model_type \o model_type \o s_not_supported]]

\* the accelerator __prepare_trainer picks
Accelerator(mps, cuda) == IF mps THEN "mps" ELSE IF cuda THEN "gpu" ELSE "cpu"

-----------------------------------------------------------------------------
(* Control flow of main and TrainHandler.__init__ *)

\* Steps with the model built before the training-loop engine
StepsModelFirst ==
    <<"read_config", "local_conf", "cli_override", "wandb_init", "use_artifact",
      "preparations", "class_mapping", "transforms", "batch_size", "data_module",
      "model", "trainer", "train", "log_artifact", "finish">>

\* the statements of main, with TrainHandler.__init__ and
\* __prepare_data_module inlined, in program order
Steps == <<"read_config", "local_conf", "cli_override", "wandb_init", "use_artifact",
           "preparations", "class_mapping", "transforms", "batch_size", "data_module",
           "trainer", "model", "train", "log_artifact", "finish">>

After(step) ==
    LET i == CHOOSE j \in DOMAIN Steps : Steps[j] = step
    IN IF i = Len(Steps) THEN "done" ELSE Steps[i + 1]

NewHandler == [wandb_logger |-> None, callbacks |-> <<>>, data_module |-> None,
               class_mapping |-> None, trainer |-> None, model |-> None,
               train_loader_only |-> None]

Init ==
    /\ \E in \in Inputs : cli = in[1] /\ args = in[1] /\ world = in[2]
    /\ pc = Steps[1]
    /\ config_args = PyDict(EmptyDict)
    /\ wandb_config = None
    /\ fs = {}
    /\ handler = NewHandler
    /\ batch = None
    /\ fit_calls = <<>>
    /\ test_calls = <<>>
    /\ best_model_path = PyStr(<<>>)
    /\ artifacts = <<>>
    /\ events = <<>>
    /\ error = None

\* an uncaught exception ends the process
Raise(type, msg) ==
    /\ pc' = "failed"
    /\ error' = [type |-> type, msg |-> msg, at |-> pc]

Continue ==
    /\ pc' = After(pc)
    /\ error' = error

\* main: "Read arguments from passed config"
read_config ==
    /\ pc = "read_config"
    /\ IF Truthy(args.config)
       THEN /\ config_args' = world.config_doc
            /\ IF world.config_doc = None
               THEN Raise("AttributeError", <<>>) /\ args' = args
               ELSE Continue /\ args' = SetAttrs(args, world.config_doc.v)
       ELSE Continue /\ UNCHANGED <<args, config_args>>
    /\ UNCHANGED <<world, cli, wandb_config, fs, handler, batch, fit_calls, test_calls,
                   best_model_path, artifacts, events>>

\* local_conf applying the override file only to options that are still None
local_conf_only_unset ==
    /\ pc = "local_conf"
    /\ IF world.local_exists
       THEN IF world.local_doc = None
            THEN Raise("AttributeError", <<>>) /\ args' = args
            ELSE /\ Continue
                 /\ args' = [k \in DOMAIN args \cup DOMAIN world.local_doc.v |->
                                IF k \in DOMAIN world.local_doc.v
                                   /\ (k \notin DOMAIN args \/ args[k] = None)
                                THEN world.local_doc.v[k] ELSE args[k]]
       ELSE Continue /\ args' = args
    /\ UNCHANGED <<world, cli, config_args, wandb_config, fs, handler, batch, fit_calls,
                   test_calls, best_model_path, artifacts, events>>

\* main: "Overwrite argparse arguments with local config"
local_conf ==
    /\ pc = "local_conf"
    /\ IF world.local_exists
       THEN IF world.local_doc = None
            THEN Raise("AttributeError", <<>>) /\ args' = args
            ELSE Continue /\ args' = SetAttrs(args, world.local_doc.v)
       ELSE Continue /\ args' = args
    /\ UNCHANGED <<world, cli, config_args, wandb_config, fs, handler, batch, fit_calls,
                   test_calls, best_model_path, artifacts, events>>

\* main: "Ensure argparse arguments override config file arguments if provided"
cli_override ==
    /\ pc = "cli_override"
    /\ args' = [key \in DOMAIN args |->
                   IF args[key] = None /\ key \in DOMAIN config_args.v
                   THEN config_args.v[key] ELSE args[key]]
    /\ Continue
    /\ UNCHANGED <<world, cli, config_args, wandb_config, fs, handler, batch, fit_calls,
                   test_calls, best_model_path, artifacts, events>>

\* main: wandb.init(config=args, ...); args = argparse.Namespace(**wandb.config)
wandb_init ==
    /\ pc = "wandb_init"
    /\ wandb_config' = args
    /\ args' = wandb_config'
    /\ events' = Append(events, "wandb.init")
    /\ Continue
    /\ UNCHANGED <<world, cli, config_args, fs, handler, batch, fit_calls, test_calls,
                   best_model_path, artifacts>>

\* main: wandb.use_artifact("comb_mln2:latest")
use_artifact ==
    /\ pc = "use_artifact"
    /\ events' = Append(events, "wandb.use_artifact")
    /\ Continue
    /\ UNCHANGED <<world, cli, args, config_args, wandb_config, fs, handler, batch,
                   fit_calls, test_calls, best_model_path, artifacts>>

\* TrainHandler.__preparations
preparations ==
    /\ pc = "preparations"
    /\ LET checkpoint_callback ==
               CheckpointCallback(args, world.sweep_id, world.now, world.run_name)
       IN /\ fs' = fs \cup {checkpoint_callback.dirpath}
          /\ handler' = [handler EXCEPT
                 !.wandb_logger = [experiment |-> world.run_name],
                 !.callbacks = <<checkpoint_callback, "ModelSummary", "LearningRateMonitor">>]
    /\ events' = events \o <<"seed_everything", "WandbLogger", "os.makedirs",
                             "ModelCheckpoint">>
    /\ Continue
    /\ UNCHANGED <<world, cli, args, config_args, wandb_config, batch, fit_calls,
                   test_calls, best_model_path, artifacts>>

\* TrainHandler.__prepare_class_mapping
class_mapping ==
    /\ pc = "class_mapping"
    /\ events' = Append(events, "load_class_mapping")
    /\ Continue
    /\ UNCHANGED <<world, cli, args, config_args, wandb_config, fs, handler, batch,
                   fit_calls, test_calls, best_model_path, artifacts>>

\* TrainHandler.__prepare_transforms
transforms ==
    /\ pc = "transforms"
    /\ events' = events \o <<"load_transforms", "wandb.log">>
    /\ Continue
    /\ UNCHANGED <<world, cli, args, config_args, wandb_config, fs, handler, batch,
                   fit_calls, test_calls, best_model_path, artifacts>>

\* TrainHandler.__get_batch_size
batch_size ==
    /\ pc = "batch_size"
    /\ batch' = GetBatchSize(args, world.cuda)
    /\ wandb_config' = SetAttrs(wandb_config, [train_bs |-> batch'[1], val_bs |-> batch'[2]])
    /\ events' = events \o <<VramLog(world.cuda), "wandb.config.update">>
    /\ Continue
    /\ UNCHANGED <<world, cli, args, config_args, fs, handler, fit_calls, test_calls,
                   best_model_path, artifacts>>

\* TrainHandler.__prepare_data_module: DataModule(...), setup(); then
\* __init__ reads class_to_index
data_module ==
    /\ pc = "data_module"
    /\ handler' = [handler EXCEPT
           !.data_module = [train_bs |-> batch[1], val_bs |-> batch[2],
                            train_dataloader |-> world.train_loader,
                            val_dataloader |-> world.val_loader,
                            test_dataloader |-> world.test_loader],
           !.class_mapping = PyStr(<<"c", "l", "a", "s", "s", "_", "t", "o", "_", "i", "n", "d", "e", "x">>)]
    /\ events' = events \o <<"DataModule", "DataModule.setup">>
    /\ Continue
    /\ UNCHANGED <<world, cli, args, config_args, wandb_config, fs, batch, fit_calls,
                   test_calls, best_model_path, artifacts>>

\* TrainHandler.__prepare_trainer
trainer ==
    /\ pc = "trainer"
    /\ handler' = [handler EXCEPT
           !.trainer = [logger |-> handler.wandb_logger,
                        accelerator |-> Accelerator(world.mps, world.cuda),
                        callbacks |-> handler.callbacks]]
    /\ events' = Append(events, "Trainer")
    /\ Continue
    /\ UNCHANGED <<world, cli, args, config_args, wandb_config, fs, batch, fit_calls,
                   test_calls, best_model_path, artifacts>>

\* TrainHandler.__prepare_model, then self.train_loader_only = args.train_loader_only
model ==
    /\ pc = "model"
    /\ LET model_cls == GetModelCls(args.model_arch.v, args.model_type.v)
       IN IF model_cls.ok
          THEN /\ handler' = [handler EXCEPT
                      !.model = [cls |-> model_cls.cls, class_to_idx |-> handler.class_mapping,
                                 checkpoint_path |-> None],
                      !.train_loader_only = args.train_loader_only]
               /\ events' = Append(events, "model_cls")
               /\ Continue
          ELSE /\ Raise(model_cls.exc.type, model_cls.exc.msg)
               /\ UNCHANGED <<handler, events>>
    /\ UNCHANGED <<world, cli, args, config_args, wandb_config, fs, batch, fit_calls,
                   test_calls, best_model_path, artifacts>>

-----------------------------------------------------------------------------
(* TrainHandler.train, TrainHandler.test and the tail of main *)

s_no_val_loader == <<
    "V", "a", "l", "i", "d", "a", "t", "i", "o", "n", " ", "l", "o", "a", "d", "e",
    "r", " ", "i", "s", " ", "N", "o", "n", "e", " ", "a", "n", "d", " ", "'", "t",
    "r", "a", "i", "n", "_", "l", "o", "a", "d", "e", "r", "_", "o", "n", "l", "y",
    "'", " ", "i", "s", " ", "n", "o", "t", " ", "s", "e", "t", " ", "t", "o", " ",
    "T", "r", "u", "e", ".", " ", "P", "l", "e", "a", "s", "e", " ", "p", "r", "o",
    "v", "i", "d", "e", " ", "a", " ", "v", "a", "l", "i", "d", "a", "t", "i", "o",
    "n", " ", "l", "o", "a", "d", "e", "r", ".">>

s_artifact == <<"e", "v", "a", "0", "2", "_", "u", "l", "c", "e", "r", "s", "_",
                "e", "r", "o", "s", "i", "o", "n", "s">>

\* trainer.fit(model=..., train_dataloaders=..., val_dataloaders=...): the engine
\* records the call and, when it saved a checkpoint, the best checkpoint's path
Fit(train_dataloaders, val_dataloaders) ==
    /\ fit_calls' = Append(fit_calls, [model |-> handler.model,
                                       train_dataloaders |-> train_dataloaders,
                                       val_dataloaders |-> val_dataloaders])
    /\ best_model_path' =
           IF world.checkpoint_saved
           THEN PyStr(PathJoin(handler.callbacks[1].dirpath,
                               handler.callbacks[1].filename \o s_ckpt))
           ELSE PyStr(<<>>)
    /\ events' = Append(events, "Trainer.fit")

\* train passing the validation loader whenever one exists
train_ignores_flag ==
    /\ pc = "train"
    /\ LET train_loader == handler.data_module.train_dataloader
           val_loader == handler.data_module.val_dataloader
       IN IF train_loader # None
          THEN IF val_loader # None
               THEN Fit(train_loader, val_loader) /\ Continue
               ELSE IF Truthy(handler.train_loader_only)
               THEN Fit(train_loader, None) /\ Continue
               ELSE /\ Raise("ValueError", s_no_val_loader)
                    /\ UNCHANGED <<fit_calls, best_model_path, events>>
          ELSE Continue /\ UNCHANGED <<fit_calls, best_model_path, events>>
    /\ UNCHANGED <<world, cli, args, config_args, wandb_config, fs, handler, batch,
                   test_calls, artifacts>>

\* TrainHandler.train
train ==
    /\ pc = "train"
    /\ LET train_loader == handler.data_module.train_dataloader
           val_loader == handler.data_module.val_dataloader
       IN IF train_loader # None
          THEN IF Truthy(handler.train_loader_only)
               THEN Fit(train_loader, None) /\ Continue
               ELSE IF val_loader # None
               THEN Fit(train_loader, val_loader) /\ Continue
               ELSE /\ Raise("ValueError", s_no_val_loader)
                    /\ UNCHANGED <<fit_calls, best_model_path, events>>
          ELSE Continue /\ UNCHANGED <<fit_calls, best_model_path, events>>
    /\ UNCHANGED <<world, cli, args, config_args, wandb_config, fs, handler, batch,
                   test_calls, artifacts>>

\* TrainHandler.test; no statement of main calls it
test ==
    /\ pc = "test"
    /\ IF handler.data_module.test_dataloader = None
       THEN /\ events' = Append(events, "logging.info:skip_testing")
            /\ test_calls' = test_calls
       ELSE /\ test_calls' = Append(test_calls,
                                    [model |-> handler.model,
                                     dataloaders |-> handler.data_module.test_dataloader,
                                     ckpt_path |-> "best"])
            /\ events' = Append(events, "Trainer.test")
    /\ Continue
    /\ UNCHANGED <<world, cli, args, config_args, wandb_config, fs, handler, batch,
                   fit_calls, best_model_path, artifacts>>

\* main: "Log best model as artifact"; Artifact.add_file raises ValueError
\* for a path that is no file, as the empty best_model_path is
log_artifact ==
    /\ pc = "log_artifact"
    /\ IF best_model_path.v = <<>>
       THEN Raise("ValueError", best_model_path.v) /\ UNCHANGED <<artifacts, events>>
       ELSE /\ artifacts' = Append(artifacts, [name |-> s_artifact, type |-> "model",
                                               file |-> best_model_path.v])
            /\ events' = Append(events, "wandb.log_artifact")
            /\ Continue
    /\ UNCHANGED <<world, cli, args, config_args, wandb_config, fs, handler, batch,
                   fit_calls, test_calls, best_model_path>>

\* main: wandb.finish()
finish ==
    /\ pc = "finish"
    /\ events' = Append(events, "wandb.finish")
    /\ Continue
    /\ UNCHANGED <<world, cli, args, config_args, wandb_config, fs, handler, batch,
                   fit_calls, test_calls, best_model_path, artifacts>>

Next ==
    \/ read_config
    \/ local_conf
    \/ cli_override
    \/ wandb_init
    \/ use_artifact
    \/ preparations
    \/ class_mapping
    \/ transforms
    \/ batch_size
    \/ data_module
    \/ trainer
    \/ model
    \/ train
    \/ log_artifact
    \/ finish

Spec == Init /\ [][Next]_vars

-----------------------------------------------------------------------------
(* Vocabulary of the properties *)

\* the configuration merge of main has completed
Merged == pc = "wandb_init"

\* the step raised an exception of the type
Raised(step, type) == error # None /\ error.at = step /\ error.type = type

PreparationsDone == handler.callbacks # <<>>
BatchSizeDone == batch # None
ModelDone == handler.model # None \/ (error # None /\ error.at = "model")
TrainDone == handler.model # None /\ pc # "train"

\* the checkpoint policy built by __preparations
Policy == handler.callbacks[1]

\* model_arch equals "endovit" up to the case of its letters
IsEndovitArch(a) ==
    /\ Len(a) = Len(s_endovit)
    /\ \A i \in DOMAIN a : a[i] \in {s_endovit[i], s_ENDOVIT[i]}

\* the components of a path and whether it is absolute
RECURSIVE PathParts(_)
PathParts(s) ==
    IF s = <<>> THEN <<>>
    ELSE IF s[1] = "/" THEN PathParts(Tail(s))
    ELSE LET n == IF \E i \in DOMAIN s : s[i] = "/"
                  THEN (CHOOSE i \in DOMAIN s :
                            s[i] = "/" /\ \A j \in 1..(i - 1) : s[j] # "/") - 1
                  ELSE Len(s)
         IN <<SubSeq(s, 1, n)>> \o PathParts(SubSeq(s, n + 1, Len(s)))

IsAbsolute(s) == s # <<>> /\ s[1] = "/"

\* path p is the entry called name of the directory root
IsChild(p, root, name) ==
    /\ PathParts(p) = PathParts(root) \o <<name>>
    /\ IsAbsolute(p) = IsAbsolute(root)

\* event a precedes every occurrence of event b
Before(a, b) ==
    \A j \in DOMAIN events :
        events[j] = b => \E i \in 1..(j - 1) : events[i] = a

NoRetry == \A i, j \in DOMAIN events : events[i] = events[j] => i = j

IsPrefix(s, u) == Len(s) <= Len(u) /\ s = SubSeq(u, 1, Len(s))

IsRunEvent(e) ==
    e \in {"Trainer.fit", "Trainer.test", "logging.info:skip_testing",
           "wandb.log_artifact", "wandb.finish"}

IsBuildEvent(e) == ~IsRunEvent(e) /\ e \notin {"logging.info:gpu_vram", "logging.info:no_cuda"}

-----------------------------------------------------------------------------
(* Configuration merge *)

\* C1: with the fixed-override file absent, an option whose command-line
\* value is non-null keeps that value whatever the user config file gives
\* for it (the statement of the claim, which main does not satisfy).
C1_CliWinsOverConfigFile ==
    (Merged /\ ~world.local_exists) =>
        \A key \in DOMAIN cli :
            (cli[key] # None /\ key \in DOMAIN config_args.v) => args[key] = cli[key]

\* C2: with the fixed-override file present, every option the file sets to
\* a non-null value resolves to the file's value, whatever the command line
\* and the user config file give for it.
C2_OverrideWins ==
    (Merged /\ world.local_exists) =>
        \A key \in DOMAIN world.local_doc.v :
            world.local_doc.v[key] # None => args[key] = world.local_doc.v[key]

C2_Witness ==
    /\ Merged
    /\ world.local_exists
    /\ \E key \in DOMAIN world.local_doc.v \cap DOMAIN config_args.v :
        /\ world.local_doc.v[key] # None
        /\ cli[key] \notin {None, world.local_doc.v[key]}
        /\ config_args.v[key] \notin {None, cli[key], world.local_doc.v[key]}
        /\ args[key] = world.local_doc.v[key]

-----------------------------------------------------------------------------
(* TrainHandler.train *)

\* C3: when the data module has neither a training nor a validation loader
\* and train_loader_only is False, train() raises the ValueError and fit is
\* never called (the statement of the claim, which train does not satisfy).
C3_RaisesWithoutLoaders ==
    (/\ TrainDone
     /\ handler.data_module.train_dataloader = None
     /\ handler.data_module.val_dataloader = None
     /\ ~Truthy(handler.train_loader_only))
        => (Raised("train", "ValueError") /\ fit_calls = <<>>)

\* C8: with a training loader, train() calls fit exactly once: with only the
\* training loader when train_loader_only is set, with both loaders when it
\* is not set and a validation loader exists; fit is never called twice and
\* never without a training loader.
C8_FitOnce ==
    /\ Len(fit_calls) <= 1
    /\ \A i \in DOMAIN fit_calls : fit_calls[i].train_dataloaders # None
    /\ TrainDone =>
        LET dm == handler.data_module
        IN /\ (dm.train_dataloader # None /\ Truthy(handler.train_loader_only)) =>
                 fit_calls = <<[model |-> handler.model,
                                train_dataloaders |-> dm.train_dataloader,
                                val_dataloaders |-> None]>>
           /\ (/\ dm.train_dataloader # None
               /\ ~Truthy(handler.train_loader_only)
               /\ dm.val_dataloader # None) =>
                 fit_calls = <<[model |-> handler.model,
                                train_dataloaders |-> dm.train_dataloader,
                                val_dataloaders |-> dm.val_dataloader]>>

C8_Witness ==
    /\ TrainDone
    /\ handler.data_module.train_dataloader # None
    /\ handler.data_module.val_dataloader # None
    /\ Truthy(handler.train_loader_only)
    /\ Len(fit_calls) = 1
    /\ fit_calls[1].val_dataloaders = None

-----------------------------------------------------------------------------
(* Model selection *)

\* C4: "seer" selects RegNetY whatever the architecture; otherwise
\* model_type "endovit" or an architecture equal to "endovit" up to case
\* selects EndoViT, also for model_type "timm"; otherwise "timm" selects
\* TimmModel; model_type is compared exactly, so "SEER", "EndoViT" and
\* "TIMM" match none of the model_type rules.
C4_SelectionPrecedence ==
    ModelDone =>
        LET mt == args.model_type.v
            ma == args.model_arch.v
            selected == IF handler.model = None THEN "none" ELSE handler.model.cls
        IN /\ mt = s_seer => selected = "RegNetY"
           /\ (mt # s_seer /\ (mt = s_endovit \/ IsEndovitArch(ma))) => selected = "EndoViT"
           /\ (mt = s_timm /\ ~IsEndovitArch(ma)) => selected = "TimmModel"
           /\ mt \in {s_SEER, s_EndoViT, s_TIMM} =>
                 selected = (IF IsEndovitArch(ma) THEN "EndoViT" ELSE "none")

C4_Witness ==
    /\ ModelDone
    /\ args.model_type.v = s_timm
    /\ args.model_arch.v = s_ENDOVIT
    /\ handler.model # None
    /\ handler.model.cls = "EndoViT"

\* C5 as claimed: every model_type other than "seer", "endovit" and "timm"
\* fails with a ValueError naming it, for every model_arch.
C5_UnsupportedTypeRaises ==
    (ModelDone /\ args.model_type.v \notin {s_seer, s_endovit, s_timm}) =>
        /\ handler.model = None
        /\ Raised("model", "ValueError")
        /\ Contains(error.msg, args.model_type.v)

\* C5 as amended: every model_type other than "seer", "endovit" and "timm"
\* fails with a ValueError naming it, for every model_arch that is not
\* "endovit" up to case.
C5_UnsupportedTypeRaisesUnlessEndovitArch ==
    (/\ ModelDone
     /\ args.model_type.v \notin {s_seer, s_endovit, s_timm}
     /\ ~IsEndovitArch(args.model_arch.v)) =>
        /\ handler.model = None
        /\ Raised("model", "ValueError")
        /\ Contains(error.msg, args.model_type.v)

C5_Witness ==
    /\ Raised("model", "ValueError")
    /\ args.model_type.v = s_unsupported
    /\ args.model_arch.v = s_regnety
    /\ Contains(error.msg, s_unsupported)

-----------------------------------------------------------------------------
(* Checkpoint naming *)

s_ts_2024 == <<"2", "0", "2", "4", "0", "1", "0", "1", "_", "0", "0", "0", "0", "0", "0">>

\* C6: the sweep id alone chooses the branch.  With a sweep id the directory
\* is <checkpoint_root>/sweep-<sweep_id> and the filename template starts
\* with the run name; with no or an empty sweep id the directory is
\* <checkpoint_root>/run-<timestamp>-<run_name> and the template starts with
\* "best".  Both templates contain the metric name, and the policy monitors
\* the configured metric with mode max and keeps one checkpoint.
C6_CheckpointNaming ==
    PreparationsDone =>
        LET root == args.checkpoint_dir.v
            metric == args.metric.v
            sweep == world.sweep_id
            timestamp == StrfTime(world.now)
        IN /\ (sweep # None /\ sweep.v # <<>>) =>
                 /\ IsChild(Policy.dirpath, root, s_sweep \o sweep.v)
                 /\ StartsWith(Policy.filename, world.run_name)
           /\ (sweep = None \/ sweep.v = <<>>) =>
                 /\ IsChild(Policy.dirpath, root,
                            s_run \o timestamp \o <<"-">> \o world.run_name)
                 /\ StartsWith(Policy.filename, s_best)
           /\ (world.now.Y = 2024 /\ (sweep = None \/ sweep.v = <<>>)) =>
                 IsChild(Policy.dirpath, root,
                         s_run \o s_ts_2024 \o <<"-">> \o world.run_name)
           /\ Contains(Policy.filename, metric)
           /\ Policy.monitor = metric
           /\ Policy.mode = "max"
           /\ Policy.save_top_k = 1
           /\ Policy.dirpath \in fs

C6_Witness ==
    /\ PreparationsDone
    /\ world.sweep_id = PyStr(<<>>)
    /\ world.run_name = <<"f", "o", "o">>
    /\ world.now.Y = 2024
    /\ args.checkpoint_dir.v = s_checkpoints
    /\ Policy.dirpath = s_checkpoints \o <<"/">> \o s_run \o s_ts_2024 \o <<"-", "f", "o", "o">>
    /\ StartsWith(Policy.filename, s_best)

-----------------------------------------------------------------------------
(* Batch sizes *)

-----------------------------------------------------------------------------
(* Order of the steps *)

RunLog == SelectSeq(events, IsRunEvent)
BuildLog == SelectSeq(events, IsBuildEvent)

\* C9: a run of main that completes has trained, then run the test step
\* (an evaluation with the best checkpoint, or the logged skip), then
\* registered the best checkpoint, then closed the session, each once (the
\* statement of the claim, which main does not satisfy).
C9_FitTestArtifactFinish ==
    pc = "done" =>
        \/ /\ RunLog = <<"Trainer.fit", "Trainer.test", "wandb.log_artifact", "wandb.finish">>
           /\ handler.data_module.test_dataloader # None
           /\ test_calls = <<[model |-> handler.model,
                              dataloaders |-> handler.data_module.test_dataloader,
                              ckpt_path |-> "best"]>>
        \/ /\ RunLog = <<"Trainer.fit", "logging.info:skip_testing",
                         "wandb.log_artifact", "wandb.finish">>
           /\ handler.data_module.test_dataloader = None
           /\ test_calls = <<>>

\* C10 as claimed: the random-number sources are seeded before the session
\* is opened, the checkpoint policy is built after the session is opened,
\* the data pipeline after the transforms and the batch sizes, the model
\* before the training-loop engine, and no step is retried.
C10_DocumentedBuildOrder ==
    /\ Before("seed_everything", "wandb.init")
    /\ Before("wandb.init", "ModelCheckpoint")
    /\ Before("load_transforms", "DataModule")
    /\ Before("wandb.config.update", "DataModule")
    /\ Before("model_cls", "Trainer")
    /\ NoRetry

\* C10 as amended: the build phase is a linear pipeline without retries in
\* which the session is opened before the random-number sources are seeded,
\* the checkpoint policy is built after both, the data pipeline after the
\* class mapping, the transforms and the batch sizes, and the training-loop
\* engine before the model.
C10_BuildOrder ==
    /\ IsPrefix(BuildLog,
                <<"wandb.init", "wandb.use_artifact", "seed_everything", "WandbLogger",
                  "os.makedirs", "ModelCheckpoint", "load_class_mapping",
                  "load_transforms", "wandb.log", "wandb.config.update", "DataModule",
                  "DataModule.setup", "Trainer", "model_cls">>)
    /\ Before("wandb.init", "seed_everything")
    /\ Before("seed_everything", "ModelCheckpoint")
    /\ Before("load_transforms", "DataModule")
    /\ Before("wandb.config.update", "DataModule")
    /\ Before("Trainer", "model_cls")
    /\ NoRetry
    /\ "Trainer.fit" \in {events[i] : i \in DOMAIN events} => Len(BuildLog) = 14

C10_Witness ==
    /\ pc = "done"
    /\ Len(BuildLog) = 14
    /\ BuildLog[1] = "wandb.init"
    /\ BuildLog[3] = "seed_everything"
    /\ BuildLog[13] = "Trainer"
    /\ BuildLog[14] = "model_cls"

====
